---- MODULE Spec2Model ----
(***************************************************************************)
(* The ledger-based expert pipeline of multi_agent_debate:                 *)
(*   MathAggregator -> Orchestrator -> GeometryExpert / AlgebraExpert      *)
(*                  -> Evaluator -> MathAggregator                         *)
(* running on a single-threaded publish/subscribe runtime.  Every agent    *)
(* class carries @default_subscription and every message is published to   *)
(* DefaultTopicId(), so a published message reaches every agent except its *)
(* sender and is routed, inside the agent, by the type of the message.     *)
(* A handler runs without interruption up to its oracle call               *)
(* (model_client.create), where it is suspended; it is resumed when the    *)
(* oracle returns.                                                         *)
(***************************************************************************)
EXTENDS Integers, Sequences, FiniteSets, TLC

(***************************************************************************)
(* Agents and routing                                                      *)
(***************************************************************************)
AgentSet == {"Orchestrator", "GeometryExpert", "AlgebraExpert", "Evaluator", "MathAggregator"}

\* Every agent class is decorated with @default_subscription; the subscriptions
\* are kept in the order in which DebateManager.initialize registers the agents.
Subscribers == <<"Orchestrator", "GeometryExpert", "AlgebraExpert", "Evaluator", "MathAggregator">>

\* The @message_handler methods of each agent class, by message type.
HandledTypes(a) ==
  CASE a = "Orchestrator"   -> {"Question", "ExpertSolution"}
    [] a = "GeometryExpert" -> {"ExpertAssignment"}
    [] a = "AlgebraExpert"  -> {"ExpertAssignment"}
    [] a = "Evaluator"      -> {"ExpertAssignment", "ExpertSolution"}
    [] a = "MathAggregator" -> {"Question", "Answer"}

\* The runtime never sends a published message back to its sender; an agent
\* without a handler for the message type drops it.
IsRecipient(a, msg, sender) == a # sender /\ msg.type \in HandledTypes(a)

Recipients(msg, sender) ==
  LET keep(a) == IsRecipient(a, msg, sender) IN SelectSeq(Subscribers, keep)

(***************************************************************************)
(* Oracle texts.  A text is a sequence of lines; a line is an optional     *)
(* indentation, a head (a section label, "- " or nothing) and a body.      *)
(***************************************************************************)
Ln(h, b) == [indent |-> FALSE, head |-> h, body |-> b]
ILn(h, b) == [indent |-> TRUE, head |-> h, body |-> b]

\* str.lower() contains "true" / "both"; str contains an expert name
ContainsTrue(b) == b \in {"true", "True", "true, steady"}
ContainsBoth(b) == b \in {"both", "Both experts"}
ContainsGeometryExpert(b) == b \in {"GeometryExpert", "GeometryExpert, AlgebraExpert"}
ContainsAlgebraExpert(b) == b \in {"AlgebraExpert", "GeometryExpert, AlgebraExpert"}

\* line.startswith(label) on the unstripped line (the handlers' own loops)
StartsWith(line, label) == ~line.indent /\ line.head = label
\* line.strip().startswith(label) (TaskLedger.update_from_analysis)
StrippedStartsWith(line, label) == line.head = label
\* line.strip().startswith("- "): a bare "- " strips to "-" and does not match
StrippedStartsWithDash(line) == line.head = "- " /\ line.body # ""

(***************************************************************************)
(* TaskLedger                                                              *)
(***************************************************************************)
TaskLedger(q) ==
  [question |-> q, given_facts |-> <<>>, facts_to_lookup |-> <<>>,
   facts_to_derive |-> <<>>, educated_guesses |-> <<>>, task_plan |-> <<>>]

SectionOf(label) ==
  CASE label = "GIVEN_FACTS:"      -> "given_facts"
    [] label = "FACTS_TO_LOOKUP:"  -> "facts_to_lookup"
    [] label = "FACTS_TO_DERIVE:"  -> "facts_to_derive"
    [] label = "EDUCATED_GUESSES:" -> "educated_guesses"
    [] label = "TASK_PLAN:"        -> "task_plan"
    [] OTHER                       -> "None"

SectionLabels == {"GIVEN_FACTS:", "FACTS_TO_LOOKUP:", "FACTS_TO_DERIVE:", "EDUCATED_GUESSES:", "TASK_PLAN:"}

AppendTo(tl, section, item) ==
  CASE section = "given_facts"      -> [tl EXCEPT !.given_facts = Append(@, item)]
    [] section = "facts_to_lookup"  -> [tl EXCEPT !.facts_to_lookup = Append(@, item)]
    [] section = "facts_to_derive"  -> [tl EXCEPT !.facts_to_derive = Append(@, item)]
    [] section = "educated_guesses" -> [tl EXCEPT !.educated_guesses = Append(@, item)]
    [] section = "task_plan"        -> [tl EXCEPT !.task_plan = Append(@, item)]
    [] OTHER                        -> tl

\* a line without a label is kept as an item of the current section
RECURSIVE ScanLines_keepsall(_, _, _, _)
ScanLines_keepsall(tl, lines, i, current_section) ==
  IF i > Len(lines) THEN tl
  ELSE LET line == lines[i] IN
    IF \E lab \in SectionLabels : StrippedStartsWith(line, lab)
    THEN ScanLines_keepsall(IF line.body # "" THEN AppendTo(tl, SectionOf(line.head), line.body) ELSE tl,
                            lines, i + 1, SectionOf(line.head))
    ELSE IF line.body # "" /\ current_section # "None"
    THEN ScanLines_keepsall(AppendTo(tl, current_section, line.body), lines, i + 1, current_section)
    ELSE ScanLines_keepsall(tl, lines, i + 1, current_section)

RECURSIVE ScanLines(_, _, _, _)
ScanLines(tl, lines, i, current_section) ==
  IF i > Len(lines) THEN tl
  ELSE LET line == lines[i] IN
    IF \E lab \in SectionLabels : StrippedStartsWith(line, lab)
    THEN ScanLines(IF line.body # "" THEN AppendTo(tl, SectionOf(line.head), line.body) ELSE tl,
                   lines, i + 1, SectionOf(line.head))
    ELSE IF StrippedStartsWithDash(line) /\ current_section # "None"
    THEN ScanLines(AppendTo(tl, current_section, line.body), lines, i + 1, current_section)
    ELSE ScanLines(tl, lines, i + 1, current_section)

\* the parsed items replace what the ledger held
update_from_analysis_fresh(tl, analysis_content) ==
  ScanLines(TaskLedger(tl.question), analysis_content, 1, "None")

update_from_analysis(tl, analysis_content) == ScanLines(tl, analysis_content, 1, "None")

(***************************************************************************)
(* ProgressLedger                                                          *)
(***************************************************************************)
ProgressLedger ==
  [task_complete |-> FALSE, unproductive_loops |-> 0, progress_being_made |-> TRUE,
   next_speaker |-> "None", next_speaker_instruction |-> "", stall_count |-> 0,
   completed_steps |-> <<>>]

\* the flag is set on a failed step only and never set back
update_progress_keepflag(pl, step_completed, progress_made) ==
  [pl EXCEPT !.completed_steps = IF step_completed # "" THEN Append(@, step_completed) ELSE @,
             !.progress_being_made = IF ~progress_made THEN FALSE ELSE @,
             !.stall_count = IF ~progress_made THEN @ + 1 ELSE 0]

\* the counter is not reset by an update that reports progress
update_progress_noreset(pl, step_completed, progress_made) ==
  [pl EXCEPT !.completed_steps = IF step_completed # "" THEN Append(@, step_completed) ELSE @,
             !.progress_being_made = progress_made,
             !.stall_count = IF ~progress_made THEN @ + 1 ELSE @]

update_progress(pl, step_completed, progress_made) ==
  [pl EXCEPT !.completed_steps = IF step_completed # "" THEN Append(@, step_completed) ELSE @,
             !.progress_being_made = progress_made,
             !.stall_count = IF ~progress_made THEN @ + 1 ELSE 0]

\* only the counter is consulted
check_stall_countonly(pl) == pl.stall_count > 2

check_stall(pl) == pl.stall_count > 2 \/ ~pl.progress_being_made

set_next_action(pl, speaker, instruction) ==
  [pl EXCEPT !.next_speaker = speaker, !.next_speaker_instruction = instruction]

(***************************************************************************)
(* Answer extraction: re.search(r"\{\{(\-?\d+(\.\d+)?)\}\}", content).     *)
(* A text token is a word or a brace group  open inner close.              *)
(***************************************************************************)
Word == [open |-> "", inner |-> "w", close |-> ""]
Braces(o, x, c) == [open |-> o, inner |-> x, close |-> c]

\* \-?\d+(\.\d+)?
IsNumber(x) == x \in {"72", "8", "100", "-3", "3.5", "-0.25"}

MatchesMarker(tok) == tok.open = "{{" /\ tok.close = "}}" /\ IsNumber(tok.inner)

\* every caller gets the experts' sentinel
ExtractAnswer_expertsentinel(content, sentinel) ==
  IF \E i \in 1..Len(content) : MatchesMarker(content[i])
  THEN content[CHOOSE i \in 1..Len(content) :
                 /\ MatchesMarker(content[i])
                 /\ \A j \in 1..(i - 1) : ~MatchesMarker(content[j])].inner
  ELSE "No answer found"

\* without a match the answer is left empty
ExtractAnswer_blank(content, sentinel) ==
  IF \E i \in 1..Len(content) : MatchesMarker(content[i])
  THEN content[CHOOSE i \in 1..Len(content) :
                 /\ MatchesMarker(content[i])
                 /\ \A j \in 1..(i - 1) : ~MatchesMarker(content[j])].inner
  ELSE ""

\* match.group(1) of the first match, or the sentinel when there is none
ExtractAnswer(content, sentinel) ==
  IF \E i \in 1..Len(content) : MatchesMarker(content[i])
  THEN content[CHOOSE i \in 1..Len(content) :
                 /\ MatchesMarker(content[i])
                 /\ \A j \in 1..(i - 1) : ~MatchesMarker(content[j])].inner
  ELSE sentinel

(***************************************************************************)
(* Orchestrator: parsing of the analysis text in handle_question           *)
(***************************************************************************)
RECURSIVE ParseProgress(_, _, _)
\* acc = [progress_made, next_speaker, speaker_instruction]
ParseProgress(lines, i, acc) ==
  IF i > Len(lines) THEN acc
  ELSE LET line == lines[i] IN
    IF StartsWith(line, "PROGRESS_MADE:")
    THEN ParseProgress(lines, i + 1, [acc EXCEPT !.progress_made = ContainsTrue(line.body)])
    ELSE IF StartsWith(line, "NEXT_SPEAKER:")
    THEN ParseProgress(lines, i + 1, [acc EXCEPT !.next_speaker = line.body])
    ELSE IF StartsWith(line, "SPEAKER_INSTRUCTION:")
    THEN ParseProgress(lines, i + 1, [acc EXCEPT !.speaker_instruction = line.body])
    ELSE ParseProgress(lines, i + 1, acc)

ExpertsOfText(expert_text) ==
  IF ContainsBoth(expert_text) THEN <<"GeometryExpert", "AlgebraExpert">>
  ELSE IF ContainsGeometryExpert(expert_text) THEN <<"GeometryExpert">>
  ELSE IF ContainsAlgebraExpert(expert_text) THEN <<"AlgebraExpert">>
  ELSE <<"AlgebraExpert">>

RECURSIVE ParseAssignment(_, _, _)
\* acc = [assigned_experts, reasoning]
ParseAssignment(lines, i, acc) ==
  IF i > Len(lines) THEN acc
  ELSE LET line == lines[i] IN
    IF StartsWith(line, "ASSIGNED_EXPERTS:")
    THEN ParseAssignment(lines, i + 1, [acc EXCEPT !.assigned_experts = ExpertsOfText(line.body)])
    ELSE IF StartsWith(line, "REASONING:")
    THEN ParseAssignment(lines, i + 1, [acc EXCEPT !.reasoning = line.body])
    ELSE ParseAssignment(lines, i + 1, acc)

DefaultExperts == <<"AlgebraExpert">>
DefaultReasoning == "General mathematical problem requiring expert analysis."

\* the safe default is forgotten
AssignedExperts_nodefault(lines) ==
  LET parsed == ParseAssignment(lines, 1, [assigned_experts |-> <<>>, reasoning |-> ""])
  IN [assigned_experts |-> parsed.assigned_experts,
      reasoning |-> IF parsed.reasoning = "" THEN DefaultReasoning ELSE parsed.reasoning]

AssignedExperts(lines) ==
  LET parsed == ParseAssignment(lines, 1, [assigned_experts |-> <<>>, reasoning |-> ""])
  IN [assigned_experts |-> IF parsed.assigned_experts = <<>> THEN DefaultExperts
                           ELSE parsed.assigned_experts,
      reasoning |-> IF parsed.reasoning = "" THEN DefaultReasoning ELSE parsed.reasoning]

Range(s) == {s[i] : i \in 1..Len(s)}

(***************************************************************************)
(* Messages                                                                *)
(***************************************************************************)
Question(content) == [type |-> "Question", content |-> content]
Answer(content) == [type |-> "Answer", content |-> content]
ExpertAssignment(question, assigned_experts, reasoning) ==
  [type |-> "ExpertAssignment", question |-> question,
   assigned_experts |-> assigned_experts, reasoning |-> reasoning]
\* the solution does not carry the question it answers
ExpertSolution_noquestion(expert_name, question, solution, answer) ==
  [type |-> "ExpertSolution", expert_name |-> expert_name, question |-> "",
   solution |-> solution, answer |-> answer]

ExpertSolution(expert_name, question, solution, answer) ==
  [type |-> "ExpertSolution", expert_name |-> expert_name, question |-> question,
   solution |-> solution, answer |-> answer]

None == [none |-> TRUE]

(***************************************************************************)
(* What the oracle may return to each agent                                *)
(***************************************************************************)
TheQuestion == "Tom sold 48 clips in April and half that in May; total?"

Analyses ==
  { <<Ln("GIVEN_FACTS:", "48 clips in April"), Ln("- ", "half in May"),
      Ln("TASK_PLAN:", ""), Ln("- ", "add"),
      Ln("PROGRESS_MADE:", "true"), Ln("NEXT_SPEAKER:", "GeometryExpert"),
      Ln("ASSIGNED_EXPERTS:", "GeometryExpert"), Ln("REASONING:", "shapes")>>,
    <<Ln("PROGRESS_MADE:", "false"), Ln("ASSIGNED_EXPERTS:", "both")>>,
    <<Ln("", "I cannot tell")>>,
    <<Ln("GIVEN_FACTS:", "48 clips in April"), Ln("ASSIGNED_EXPERTS:", "nobody")>>,
    <<ILn("ASSIGNED_EXPERTS:", "GeometryExpert"), Ln("ASSIGNED_EXPERTS:", "AlgebraExpert")>> }

ExpertTexts ==
  { <<Word, Braces("{{", "72", "}}")>>,
    <<Word, Braces("{", "72", "}")>> }

EvaluatorTexts ==
  { <<Braces("{{", "8", "}}"), Word, Braces("{{", "72", "}}")>>,
    <<Braces("{{", "seventy-two", "}}")>> }

Experts == {"GeometryExpert", "AlgebraExpert"}

\* at most this many oracle calls raise
MaxFailures == 1

(***************************************************************************)
(* State                                                                   *)
(***************************************************************************)
VARIABLES
  pc,                   \* DebateManager.solve_problem: "init", "running", "returned"
  published,            \* every message published so far: [sender, msg, cause]
  queue,                \* the runtime's message queue: envelopes [id, pending]
  running,              \* handler invocations suspended at their oracle call: [agent, id]
  o_task_ledger,        \* Orchestrator._task_ledger
  o_progress_ledger,    \* Orchestrator._progress_ledger
  e_solutions_buffer,   \* Evaluator._solutions_buffer
  e_expected_experts,   \* Evaluator._expected_experts
  e_current_question,   \* Evaluator._current_question
  e_progress_ledger,    \* Evaluator._progress_ledger
  events,               \* the notifications the Callback sink has received, in order
  oracle_calls,         \* number of model_client.create calls started, per agent
  failures,             \* number of oracle calls that raised
  last,                 \* the handler step taken last: [op, agent, id, branch]
  t_ledger,             \* the ProgressLedger of test_progress_monitoring
  t_calls,              \* the progress_made arguments of its update_progress calls
  t_stalled,            \* the result of its last check_stall()
  mock_answers,         \* run_mock_debate: the answers of the mock agents, in order
  mock_final_answer,    \* run_mock_debate: the majority vote, "None" before it
  topo_roster,          \* Topology Builder: the ordered roster of agent identifiers
  topo_subs,            \* Topology Builder: the subscriptions built so far, by agent
  s_started,            \* solvers: the question has been handed to the roster
  s_mailbox,            \* solvers: each agent's FIFO mailbox
  s_round,              \* solvers: each agent's round counter
  s_buffer,             \* solvers: each agent's Round Buffer, entries in arrival order
  s_reported,           \* solvers: the <<peer, round>> pairs each agent has forwarded to its buffer
  s_released,           \* solvers: the rounds each agent's barrier released, in order
  s_inserts,            \* solvers: every peer response each agent handled: the nth of its peer and round, before or after the release
  s_requests,           \* solvers: the number of SolverRequests sent to each agent
  s_final,              \* solvers: the number of FinalSolverResponses each agent published
  s_duplicates,         \* solvers: the number of responses delivered a second time
  callback,             \* DebateManager.callback as the agents got it: "registered" or "None"
  twin,                 \* the same debate run under the other setting of callback, set aside
  p_ledger,             \* a TaskLedger before update_from_analysis
  p_lines,              \* the analysis text handed to update_from_analysis
  p_result              \* the TaskLedger after update_from_analysis, None before the call

\* what the engine holds: everything of the debate but the sink's notifications
EngineState ==
  [pc |-> pc, published |-> published, queue |-> queue, running |-> running,
   o_task_ledger |-> o_task_ledger, o_progress_ledger |-> o_progress_ledger,
   e_solutions_buffer |-> e_solutions_buffer, e_expected_experts |-> e_expected_experts,
   e_current_question |-> e_current_question, e_progress_ledger |-> e_progress_ledger,
   oracle_calls |-> oracle_calls, failures |-> failures, last |-> last]

pipeline_vars ==
  <<pc, published, queue, running, o_task_ledger, o_progress_ledger,
    e_solutions_buffer, e_expected_experts, e_current_question, e_progress_ledger,
    events, oracle_calls, failures, last>>
(***************************************************************************)
(* The roster of Solver Agents and the Topology Builder (ring of           *)
(* neighbours): predecessor and successor modulo the roster size           *)
(***************************************************************************)
\* at most this many agents in a roster handed to the Topology Builder
MaxRoster == 4

\* at most this many peer responses are delivered a second time
MaxDuplicates == 1

SolverNames == << "MathSolverA", "MathSolverB", "MathSolverC", "MathSolverD",
                 "MathSolverE", "MathSolverF", "MathSolverG", "MathSolverH" >>

AgentPool == {SolverNames[i] : i \in 1..MaxRoster}

num_solvers == 4
max_rounds == 3
num_neighbors == 2

SolverRoster == SubSeq(SolverNames, 1, num_solvers)
Solvers == {SolverRoster[i] : i \in 1..num_solvers}

IndexOf(roster, a) == CHOOSE i \in 1..Len(roster) : roster[i] = a

Predecessor(roster, i) == roster[((i + Len(roster) - 2) % Len(roster)) + 1]

\* the last agent of the roster has no wrap-around
Successor_nowrap(roster, i) == roster[IF i = Len(roster) THEN i ELSE i + 1]

Successor(roster, i) == roster[(i % Len(roster)) + 1]

RingEdges(roster, i) ==
  [predecessor |-> Predecessor(roster, i), successor |-> Successor(roster, i)]

\* the subscription set of the agent at position i
RingSubscriptions(roster, i) ==
  {RingEdges(roster, i).predecessor, RingEdges(roster, i).successor}

mock_vars == <<mock_answers, mock_final_answer>>
topo_vars == <<topo_roster, topo_subs>>
solver_vars == <<s_started, s_mailbox, s_round, s_buffer, s_reported, s_released, s_inserts,
                 s_requests, s_final, s_duplicates>>
ledger_vars == <<t_ledger, t_calls, t_stalled>>
sink_vars == <<callback, twin>>
parse_vars == <<p_ledger, p_lines, p_result>>
extra_vars == <<mock_vars, topo_vars, solver_vars, sink_vars, parse_vars>>
test_vars == <<t_ledger, t_calls, t_stalled, extra_vars>>
vars == <<pipeline_vars, test_vars>>

orchestrator_vars == <<o_task_ledger, o_progress_ledger>>
evaluator_vars == <<e_solutions_buffer, e_expected_experts, e_current_question, e_progress_ledger>>

Init ==
  /\ pc = "init"
  /\ published = <<>>
  /\ queue = <<>>
  /\ running = {}
  /\ o_task_ledger = None
  /\ o_progress_ledger = None
  /\ e_solutions_buffer = <<>>
  /\ e_expected_experts = <<>>
  /\ e_current_question = ""
  /\ e_progress_ledger = None
  /\ events = <<>>
  /\ oracle_calls = [a \in AgentSet |-> 0]
  /\ failures = 0
  /\ last = [op |-> "none", agent |-> "none", id |-> 0, branch |-> ""]
  /\ t_ledger = ProgressLedger
  /\ t_calls = <<>>
  /\ t_stalled = FALSE
  /\ mock_answers = <<>>
  /\ mock_final_answer = "None"
  /\ topo_roster = <<>>
  /\ topo_subs = <<>>
  /\ s_started = FALSE
  /\ s_mailbox = [a \in Solvers |-> <<>>]
  /\ s_round = [a \in Solvers |-> 0]
  /\ s_buffer = [a \in Solvers |-> <<>>]
  /\ s_reported = [a \in Solvers |-> {}]
  /\ s_released = [a \in Solvers |-> <<>>]
  /\ s_inserts = [a \in Solvers |-> {}]
  /\ s_requests = [a \in Solvers |-> 0]
  /\ s_final = [a \in Solvers |-> 0]
  /\ s_duplicates = 0
  /\ callback = "registered"
  /\ twin = [engine |-> EngineState, events |-> events]
  /\ p_ledger = TaskLedger(TheQuestion)
  /\ p_lines = <<>>
  /\ p_result = None

(***************************************************************************)
(* The runtime                                                             *)
(***************************************************************************)
MsgOf(id) == published[id].msg

\* publish_message: the envelope joins the queue behind the ones already there
Enqueue(q, id, msg, sender) ==
  IF Recipients(msg, sender) = <<>> THEN q
  ELSE Append(q, [id |-> id, pending |-> Recipients(msg, sender)])

\* the head envelope has been handed to its next recipient
Consume(q) ==
  IF Len(Head(q).pending) = 1 THEN Tail(q)
  ELSE <<[Head(q) EXCEPT !.pending = Tail(@)]>> \o Tail(q)

\* agent a is the next to receive the head envelope, whose message has type ty
Delivers(a, ty) ==
  /\ pc = "running"
  /\ queue # <<>>
  /\ a = Head(Head(queue).pending)
  /\ MsgOf(Head(queue).id).type = ty

\* Handing a queued envelope to its recipients takes the run loop a few turns
\* of the event loop, an oracle call a network round trip: a suspended handler
\* is resumed when the queued envelopes have been handed out.
Dispatched == queue = <<>>

Step(op, a, id, branch) == [op |-> op, agent |-> a, id |-> id, branch |-> branch]

(***************************************************************************)
(* Notifications (DebateCallback)                                          *)
(***************************************************************************)
\* if self._callback: self._callback.on_...(...)
Notify(notifications) == IF callback # "None" THEN events \o notifications ELSE events

on_agent_thinking(agent_id, round_num) ==
  [ev |-> "agent_thinking", agent |-> agent_id, round |-> round_num]
on_agent_response(agent_id, round_num, content, answer) ==
  [ev |-> "agent_response", agent |-> agent_id, round |-> round_num,
   content |-> content, answer |-> answer]
on_debate_start(question) == [ev |-> "debate_start", question |-> question]
on_debate_end(final_answer) == [ev |-> "debate_end", final_answer |-> final_answer]
on_expert_assignment(assigned_experts, reasoning) ==
  [ev |-> "expert_assignment", assigned_experts |-> assigned_experts, reasoning |-> reasoning]
on_evaluation_start == [ev |-> "evaluation_start"]
on_task_ledger_update(task_ledger) == [ev |-> "task_ledger_update", by |-> "Orchestrator"]
on_progress_ledger_update(by, progress_ledger) ==
  [ev |-> "progress_ledger_update", by |-> by, task_complete |-> progress_ledger.task_complete]

\* ', '.join(experts)
Join(experts) ==
  CASE experts = <<"GeometryExpert", "AlgebraExpert">> -> "GeometryExpert, AlgebraExpert"
    [] experts = <<"GeometryExpert">> -> "GeometryExpert"
    [] experts = <<"AlgebraExpert">> -> "AlgebraExpert"
    [] OTHER -> ""

\* f"Assigned: {', '.join(assigned_experts)}"
AssignedTo(experts) ==
  CASE experts = <<"GeometryExpert", "AlgebraExpert">> -> "Assigned: GeometryExpert, AlgebraExpert"
    [] experts = <<"GeometryExpert">> -> "Assigned: GeometryExpert"
    [] experts = <<"AlgebraExpert">> -> "Assigned: AlgebraExpert"
    [] OTHER -> "Assigned: "

\* f"{expert_name} provided solution", f"Received solution from {expert_name}"
ProvidedSolution(expert_name) ==
  IF expert_name = "GeometryExpert" THEN "GeometryExpert provided solution"
  ELSE "AlgebraExpert provided solution"
ReceivedSolution(expert_name) ==
  IF expert_name = "GeometryExpert" THEN "Received solution from GeometryExpert"
  ELSE "Received solution from AlgebraExpert"

(***************************************************************************)
(* DebateManager                                                           *)
(***************************************************************************)
solve_problem ==
  /\ pc = "init"
  /\ pc' = "running"
  /\ published' = Append(published, [sender |-> "runtime", msg |-> Question(TheQuestion), cause |-> <<>>])
  /\ queue' = Enqueue(queue, Len(published) + 1, Question(TheQuestion), "runtime")
  /\ last' = Step("solve_problem", "runtime", Len(published) + 1, "")
  /\ UNCHANGED <<running, orchestrator_vars, evaluator_vars, events, oracle_calls, failures, test_vars>>

\* runtime.stop_when_idle(): no envelope queued and no handler still running
stop_when_idle ==
  /\ pc = "running"
  /\ queue = <<>>
  /\ running = {}
  /\ pc' = "returned"
  /\ last' = Step("stop_when_idle", "runtime", 0, "")
  /\ UNCHANGED <<published, queue, running, orchestrator_vars, evaluator_vars, events,
                 oracle_calls, failures, test_vars>>

(***************************************************************************)
(* MathAggregator                                                          *)
(***************************************************************************)
\* the Question is relayed without telling the sink that the debate starts
MathAggregator_handle_question_silent ==
  /\ Delivers("MathAggregator", "Question")
  /\ LET id == Head(queue).id
         message == MsgOf(id)
     IN /\ published' = Append(published, [sender |-> "MathAggregator", msg |-> message, cause |-> <<>>])
        /\ queue' = Enqueue(Consume(queue), Len(published) + 1, message, "MathAggregator")
        /\ last' = Step("handle_question", "MathAggregator", id, "")
  /\ UNCHANGED <<pc, running, orchestrator_vars, evaluator_vars, events, oracle_calls, failures, test_vars>>

MathAggregator_handle_question ==
  /\ Delivers("MathAggregator", "Question")
  /\ LET id == Head(queue).id
         message == MsgOf(id)
     IN /\ events' = Notify(<< on_debate_start(message.content) >>)
        /\ published' = Append(published, [sender |-> "MathAggregator", msg |-> message, cause |-> <<>>])
        /\ queue' = Enqueue(Consume(queue), Len(published) + 1, message, "MathAggregator")
        /\ last' = Step("handle_question", "MathAggregator", id, "")
  /\ UNCHANGED <<pc, running, orchestrator_vars, evaluator_vars, oracle_calls, failures, test_vars>>

MathAggregator_handle_final_answer ==
  /\ Delivers("MathAggregator", "Answer")
  /\ queue' = Consume(queue)
  /\ last' = Step("handle_final_answer", "MathAggregator", Head(queue).id, "")
  /\ UNCHANGED <<pc, published, running, orchestrator_vars, evaluator_vars, events,
                 oracle_calls, failures, test_vars>>

(***************************************************************************)
(* Orchestrator                                                            *)
(***************************************************************************)
\* handle_question up to the oracle call
Orchestrator_handle_question ==
  /\ Delivers("Orchestrator", "Question")
  /\ LET id == Head(queue).id
         message == MsgOf(id)
     IN /\ o_task_ledger' = TaskLedger(message.content)
        /\ o_progress_ledger' = ProgressLedger
        /\ events' = Notify(<< on_agent_thinking("Orchestrator", 0) >>)
        /\ oracle_calls' = [oracle_calls EXCEPT !["Orchestrator"] = @ + 1]
        /\ running' = running \cup {[agent |-> "Orchestrator", id |-> id]}
        /\ queue' = Consume(queue)
        /\ last' = Step("handle_question", "Orchestrator", id, "")
  /\ UNCHANGED <<pc, published, evaluator_vars, failures, test_vars>>

\* handle_question from the return of the oracle call to its end
Orchestrator_handle_question_resume(inv, content) ==
  /\ inv \in running
  /\ Dispatched
  /\ inv.agent = "Orchestrator"
  /\ LET message == MsgOf(inv.id)
         parsed == ParseProgress(content, 1,
                     [progress_made |-> TRUE, next_speaker |-> "", speaker_instruction |-> ""])
         assigned == AssignedExperts(content)
         assignment == ExpertAssignment(message.content, assigned.assigned_experts, assigned.reasoning)
         ledger == set_next_action(
                     update_progress(o_progress_ledger, "Problem analyzed and ledgers created",
                                     parsed.progress_made),
                     parsed.next_speaker, parsed.speaker_instruction)
     IN /\ o_task_ledger' = update_from_analysis(o_task_ledger, content)
        /\ o_progress_ledger' = ledger
        /\ events' = Notify(
             << on_task_ledger_update(o_task_ledger'),
                on_progress_ledger_update("Orchestrator", ledger),
                on_expert_assignment(assigned.assigned_experts, assigned.reasoning),
                on_agent_response("Orchestrator", 0, content, AssignedTo(assigned.assigned_experts)) >>)
        /\ published' = Append(published, [sender |-> "Orchestrator", msg |-> assignment, cause |-> content])
        /\ queue' = Enqueue(queue, Len(published) + 1, assignment, "Orchestrator")
  /\ running' = running \ {inv}
  /\ last' = Step("handle_question_resume", "Orchestrator", inv.id, "")
  /\ UNCHANGED <<pc, evaluator_vars, oracle_calls, failures, test_vars>>

\* the ledger is updated inside the callback branch
Orchestrator_handle_expert_solution_sinkonly ==
  /\ Delivers("Orchestrator", "ExpertSolution")
  /\ LET id == Head(queue).id
         message == MsgOf(id)
     IN IF o_progress_ledger # None
        THEN LET updated == update_progress(o_progress_ledger, ProvidedSolution(message.expert_name), TRUE)
                 ledger == IF check_stall(updated)
                           THEN set_next_action(updated, "Evaluator",
                                  "Validate available solutions due to stall detection")
                           ELSE set_next_action(updated, "Evaluator", "Validate expert solutions")
             IN /\ o_progress_ledger' = IF callback # "None" THEN ledger ELSE o_progress_ledger
                /\ events' = Notify(<< on_progress_ledger_update("Orchestrator", ledger) >>)
                /\ last' = Step("handle_expert_solution", "Orchestrator", id, "")
        ELSE /\ UNCHANGED <<o_progress_ledger, events>>
             /\ last' = Step("handle_expert_solution", "Orchestrator", id, "no_ledger")
  /\ queue' = Consume(queue)
  /\ UNCHANGED <<pc, published, running, o_task_ledger, evaluator_vars, oracle_calls, failures, test_vars>>

Orchestrator_handle_expert_solution ==
  /\ Delivers("Orchestrator", "ExpertSolution")
  /\ LET id == Head(queue).id
         message == MsgOf(id)
     IN IF o_progress_ledger # None
        THEN LET updated == update_progress(o_progress_ledger, ProvidedSolution(message.expert_name), TRUE)
                 ledger == IF check_stall(updated)
                           THEN set_next_action(updated, "Evaluator",
                                  "Validate available solutions due to stall detection")
                           ELSE set_next_action(updated, "Evaluator", "Validate expert solutions")
             IN /\ o_progress_ledger' = ledger
                /\ events' = Notify(<< on_progress_ledger_update("Orchestrator", ledger) >>)
                /\ last' = Step("handle_expert_solution", "Orchestrator", id, "")
        ELSE /\ UNCHANGED <<o_progress_ledger, events>>
             /\ last' = Step("handle_expert_solution", "Orchestrator", id, "no_ledger")
  /\ queue' = Consume(queue)
  /\ UNCHANGED <<pc, published, running, o_task_ledger, evaluator_vars, oracle_calls, failures, test_vars>>

(***************************************************************************)
(* GeometryExpert and AlgebraExpert (their handle_assignment differ only   *)
(* in the expert's own name and prompt)                                    *)
(***************************************************************************)
\* every expert answers every assignment that names somebody
IsAssigned_any(e, assigned_experts) == assigned_experts # <<>>

\* "GeometryExpert" in message.assigned_experts
IsAssigned(e, assigned_experts) == e \in Range(assigned_experts)

Expert_handle_assignment(e) ==
  /\ Delivers(e, "ExpertAssignment")
  /\ LET id == Head(queue).id
         message == MsgOf(id)
     IN IF ~IsAssigned(e, message.assigned_experts)
        THEN /\ last' = Step("handle_assignment", e, id, "not_assigned")
             /\ UNCHANGED <<events, oracle_calls, running>>
        ELSE /\ events' = Notify(<< on_agent_thinking(e, 1) >>)
             /\ oracle_calls' = [oracle_calls EXCEPT ![e] = @ + 1]
             /\ running' = running \cup {[agent |-> e, id |-> id]}
             /\ last' = Step("handle_assignment", e, id, "assigned")
  /\ queue' = Consume(queue)
  /\ UNCHANGED <<pc, published, orchestrator_vars, evaluator_vars, failures, test_vars>>

Expert_handle_assignment_resume(inv, content) ==
  /\ inv \in running
  /\ Dispatched
  /\ inv.agent \in Experts
  /\ LET message == MsgOf(inv.id)
         answer == ExtractAnswer(content, "No answer found")
         solution == ExpertSolution(inv.agent, message.question, content, answer)
     IN /\ events' = Notify(<< on_agent_response(inv.agent, 1, content, answer) >>)
        /\ published' = Append(published, [sender |-> inv.agent, msg |-> solution, cause |-> <<inv.id>>])
        /\ queue' = Enqueue(queue, Len(published) + 1, solution, inv.agent)
  /\ running' = running \ {inv}
  /\ last' = Step("handle_assignment_resume", inv.agent, inv.id, "")
  /\ UNCHANGED <<pc, orchestrator_vars, evaluator_vars, oracle_calls, failures, test_vars>>

(***************************************************************************)
(* Evaluator                                                               *)
(***************************************************************************)
\* f"Waiting for solutions from: {', '.join(self._expected_experts)}"
WaitingFor(experts) ==
  CASE experts = <<"GeometryExpert", "AlgebraExpert">> -> "Waiting for solutions from: GeometryExpert, AlgebraExpert"
    [] experts = <<"GeometryExpert">> -> "Waiting for solutions from: GeometryExpert"
    [] experts = <<"AlgebraExpert">> -> "Waiting for solutions from: AlgebraExpert"
    [] OTHER -> "Waiting for solutions from: "

Evaluator_handle_assignment ==
  /\ Delivers("Evaluator", "ExpertAssignment")
  /\ LET id == Head(queue).id
         message == MsgOf(id)
     IN /\ e_expected_experts' = message.assigned_experts
        /\ e_current_question' = message.question
        /\ e_solutions_buffer' = <<>>
        /\ e_progress_ledger' = set_next_action(ProgressLedger, "Experts",
                                                WaitingFor(message.assigned_experts))
        /\ last' = Step("handle_assignment", "Evaluator", id, "")
  /\ queue' = Consume(queue)
  /\ UNCHANGED <<pc, published, running, orchestrator_vars, events, oracle_calls, failures, test_vars>>

\* [sol.expert_name for sol in self._solutions_buffer]
received_experts(buffer) == [i \in 1..Len(buffer) |-> buffer[i].expert_name]

\* the barrier counts the buffered solutions
AllReceived_count(buffer, expected) == Len(buffer) >= Len(expected)

\* the barrier compares the lists, not the sets
AllReceived_listeq(buffer, expected) == received_experts(buffer) = expected

\* set(received_experts) == set(self._expected_experts)
AllReceived(buffer, expected) == Range(received_experts(buffer)) = Range(expected)

\* any solution is accepted once experts are expected
IsExpected_any(expert_name, expected) == expected # <<>>

\* message.expert_name in self._expected_experts
IsExpected(expert_name, expected) == expert_name \in Range(expected)

\* handle_solution, and _evaluate_solutions up to the oracle call
Evaluator_handle_solution ==
  /\ Delivers("Evaluator", "ExpertSolution")
  /\ LET id == Head(queue).id
         message == MsgOf(id)
     IN IF IsExpected(message.expert_name, e_expected_experts)
        THEN LET buffer == Append(e_solutions_buffer, message)
                 received == IF e_progress_ledger # None
                             THEN update_progress(e_progress_ledger,
                                                  ReceivedSolution(message.expert_name), TRUE)
                             ELSE e_progress_ledger
             IN /\ e_solutions_buffer' = buffer
                /\ IF AllReceived(buffer, e_expected_experts)
                   THEN LET ledger == IF received # None
                                      THEN set_next_action(
                                             update_progress(received, "Starting solution evaluation", TRUE),
                                             "Evaluator", "Validating expert solutions")
                                      ELSE received
                        IN /\ e_progress_ledger' = ledger
                           /\ events' = Notify(
                                << on_evaluation_start, on_agent_thinking("Evaluator", 2) >> \o
                                (IF ledger # None
                                 THEN << on_progress_ledger_update("Evaluator", ledger) >>
                                 ELSE << >>))
                           /\ oracle_calls' = [oracle_calls EXCEPT !["Evaluator"] = @ + 1]
                           /\ running' = running \cup {[agent |-> "Evaluator", id |-> id]}
                           /\ last' = Step("handle_solution", "Evaluator", id, "evaluate")
                   ELSE /\ e_progress_ledger' = received
                        /\ last' = Step("handle_solution", "Evaluator", id, "buffered")
                        /\ UNCHANGED <<events, oracle_calls, running>>
        ELSE /\ last' = Step("handle_solution", "Evaluator", id, "unexpected")
             /\ UNCHANGED <<e_solutions_buffer, e_progress_ledger, events, oracle_calls, running>>
  /\ queue' = Consume(queue)
  /\ UNCHANGED <<pc, published, orchestrator_vars, e_expected_experts, e_current_question,
                 failures, test_vars>>

\* an oracle output without a marker makes _evaluate_solutions give up
Evaluator_evaluate_solutions_resume_strict(inv, content) ==
  /\ inv \in running
  /\ Dispatched
  /\ inv.agent = "Evaluator"
  /\ IF \E i \in 1..Len(content) : MatchesMarker(content[i])
     THEN LET final_answer == ExtractAnswer(content, "Evaluation incomplete")
              ledger == IF e_progress_ledger # None
                        THEN set_next_action(
                               update_progress([e_progress_ledger EXCEPT !.task_complete = TRUE],
                                               "Task completed with validated answer", TRUE),
                               "Complete", "Final answer provided")
                        ELSE e_progress_ledger
          IN /\ e_progress_ledger' = ledger
             /\ events' = Notify(
                  (IF ledger # None THEN << on_progress_ledger_update("Evaluator", ledger) >> ELSE << >>) \o
                  << on_agent_response("Evaluator", 2, content, final_answer), on_debate_end(final_answer) >>)
             /\ published' = Append(published,
                                    [sender |-> "Evaluator", msg |-> Answer(final_answer), cause |-> <<inv.id>>])
             /\ queue' = Enqueue(queue, Len(published) + 1, Answer(final_answer), "Evaluator")
     ELSE UNCHANGED <<e_progress_ledger, events, published, queue>>
  /\ running' = running \ {inv}
  /\ last' = Step("evaluate_solutions_resume", "Evaluator", inv.id, "")
  /\ UNCHANGED <<pc, orchestrator_vars, e_solutions_buffer, e_expected_experts, e_current_question,
                 oracle_calls, failures, test_vars>>

\* _evaluate_solutions from the return of the oracle call to its end
Evaluator_evaluate_solutions_resume(inv, content) ==
  /\ inv \in running
  /\ Dispatched
  /\ inv.agent = "Evaluator"
  /\ LET final_answer == ExtractAnswer(content, "Evaluation incomplete")
         ledger == IF e_progress_ledger # None
                   THEN set_next_action(
                          update_progress([e_progress_ledger EXCEPT !.task_complete = TRUE],
                                          "Task completed with validated answer", TRUE),
                          "Complete", "Final answer provided")
                   ELSE e_progress_ledger
     IN /\ e_progress_ledger' = ledger
        /\ events' = Notify(
             (IF ledger # None THEN << on_progress_ledger_update("Evaluator", ledger) >> ELSE << >>) \o
             << on_agent_response("Evaluator", 2, content, final_answer), on_debate_end(final_answer) >>)
        /\ published' = Append(published,
                               [sender |-> "Evaluator", msg |-> Answer(final_answer), cause |-> <<inv.id>>])
        /\ queue' = Enqueue(queue, Len(published) + 1, Answer(final_answer), "Evaluator")
  /\ running' = running \ {inv}
  /\ last' = Step("evaluate_solutions_resume", "Evaluator", inv.id, "")
  /\ UNCHANGED <<pc, orchestrator_vars, e_solutions_buffer, e_expected_experts, e_current_question,
                 oracle_calls, failures, test_vars>>

(***************************************************************************)
(* The oracle call of a suspended handler raises: the handler ends there.  *)
(***************************************************************************)
\* the failing handler empties the Evaluator's buffer on its way out
OracleFails_clears(inv) ==
  /\ inv \in running
  /\ Dispatched
  /\ running' = running \ {inv}
  /\ failures < MaxFailures
  /\ failures' = failures + 1
  /\ e_solutions_buffer' = <<>>
  /\ last' = Step("oracle_fails", inv.agent, inv.id, "")
  /\ UNCHANGED <<pc, published, queue, orchestrator_vars, e_expected_experts, e_current_question,
                 e_progress_ledger, events, oracle_calls, test_vars>>

OracleFails(inv) ==
  /\ inv \in running
  /\ Dispatched
  /\ running' = running \ {inv}
  /\ failures < MaxFailures
  /\ failures' = failures + 1
  /\ last' = Step("oracle_fails", inv.agent, inv.id, "")
  /\ UNCHANGED <<pc, published, queue, orchestrator_vars, evaluator_vars, events, oracle_calls, test_vars>>

Next ==
  \/ solve_problem
  \/ stop_when_idle
  \/ MathAggregator_handle_question
  \/ MathAggregator_handle_final_answer
  \/ Orchestrator_handle_question
  \/ \E inv \in running, content \in Analyses : Orchestrator_handle_question_resume(inv, content)
  \/ Orchestrator_handle_expert_solution
  \/ \E e \in Experts : Expert_handle_assignment(e)
  \/ \E inv \in running, content \in ExpertTexts : Expert_handle_assignment_resume(inv, content)
  \/ Evaluator_handle_assignment
  \/ Evaluator_handle_solution
  \/ \E inv \in running, content \in EvaluatorTexts : Evaluator_evaluate_solutions_resume(inv, content)
  \/ \E inv \in running : OracleFails(inv)

Spec == Init /\ [][Next]_vars

\* Every oracle call succeeds, every queued envelope is handed out and every
\* oracle call returns.
NextNoFailure ==
  \/ solve_problem
  \/ stop_when_idle
  \/ MathAggregator_handle_question
  \/ MathAggregator_handle_final_answer
  \/ Orchestrator_handle_question
  \/ \E inv \in running, content \in Analyses : Orchestrator_handle_question_resume(inv, content)
  \/ Orchestrator_handle_expert_solution
  \/ \E e \in Experts : Expert_handle_assignment(e)
  \/ \E inv \in running, content \in ExpertTexts : Expert_handle_assignment_resume(inv, content)
  \/ Evaluator_handle_assignment
  \/ Evaluator_handle_solution
  \/ \E inv \in running, content \in EvaluatorTexts : Evaluator_evaluate_solutions_resume(inv, content)

LiveSpec == Init /\ [][NextNoFailure]_vars /\ WF_vars(NextNoFailure)

\* Oracle calls may raise; every queued envelope is handed out and every
\* oracle call returns or raises.
FailureLiveSpec == Init /\ [][Next]_vars /\ WF_vars(Next)

(***************************************************************************)
(* The same debate with and without a callback: the run with the callback  *)
(* registered takes a step, then the run with callback = None, set aside   *)
(* in twin, takes the same step with the same oracle return.               *)
(***************************************************************************)
IsAgentResponse(e) == e.ev = "agent_response"

\* the oracle's return in the last resumed handler of the run set aside
TwinContent ==
  LET responses == SelectSeq(twin.events, IsAgentResponse)
  IN IF responses = <<>> THEN <<>> ELSE responses[Len(responses)].content

\* the run in twin becomes the current one, under the other setting of callback
Exchange(cb) ==
  /\ callback' = cb
  /\ twin' = [engine |-> EngineState, events |-> events]
  /\ pc' = twin.engine.pc
  /\ published' = twin.engine.published
  /\ queue' = twin.engine.queue
  /\ running' = twin.engine.running
  /\ o_task_ledger' = twin.engine.o_task_ledger
  /\ o_progress_ledger' = twin.engine.o_progress_ledger
  /\ e_solutions_buffer' = twin.engine.e_solutions_buffer
  /\ e_expected_experts' = twin.engine.e_expected_experts
  /\ e_current_question' = twin.engine.e_current_question
  /\ e_progress_ledger' = twin.engine.e_progress_ledger
  /\ oracle_calls' = twin.engine.oracle_calls
  /\ failures' = twin.engine.failures
  /\ last' = twin.engine.last
  /\ events' = twin.events
  /\ UNCHANGED <<ledger_vars, mock_vars, topo_vars, solver_vars, parse_vars>>

InStep == twin.engine.last = last

Sink_registered_step ==
  /\ callback = "registered"
  /\ InStep
  /\ NextNoFailure

Sink_detach ==
  /\ callback = "registered"
  /\ ~InStep
  /\ Exchange("None")

SameStepNext ==
  \/ solve_problem
  \/ stop_when_idle
  \/ MathAggregator_handle_question
  \/ MathAggregator_handle_final_answer
  \/ Orchestrator_handle_question
  \/ \E inv \in running, content \in Analyses :
       content = TwinContent /\ Orchestrator_handle_question_resume(inv, content)
  \/ Orchestrator_handle_expert_solution
  \/ \E e \in Experts : Expert_handle_assignment(e)
  \/ \E inv \in running, content \in ExpertTexts :
       content = TwinContent /\ Expert_handle_assignment_resume(inv, content)
  \/ Evaluator_handle_assignment
  \/ Evaluator_handle_solution
  \/ \E inv \in running, content \in EvaluatorTexts :
       content = TwinContent /\ Evaluator_evaluate_solutions_resume(inv, content)

Sink_none_step ==
  /\ callback = "None"
  /\ ~InStep
  /\ SameStepNext
  /\ last' = twin.engine.last

Sink_attach ==
  /\ callback = "None"
  /\ InStep
  /\ Exchange("registered")

SinkNext ==
  \/ Sink_registered_step
  \/ Sink_detach
  \/ Sink_none_step
  \/ Sink_attach

SinkSpec == Init /\ [][SinkNext]_vars

(***************************************************************************)
(* A ProgressLedger driven directly, as test_progress_monitoring does      *)
(***************************************************************************)
\* at most this many update_progress calls on the ledger under test
MaxCalls == 5

TestSteps == {"", "Step completed", "Step failed"}
TestSpeakers == {"GeometryExpert", "Evaluator"}

T_update_progress(step_completed, progress_made) ==
  /\ Len(t_calls) < MaxCalls
  /\ t_ledger' = update_progress(t_ledger, step_completed, progress_made)
  /\ t_calls' = Append(t_calls, progress_made)
  /\ last' = Step("update_progress", "test", Len(t_calls) + 1, "")
  /\ UNCHANGED <<pc, published, queue, running, orchestrator_vars, evaluator_vars, events,
                 oracle_calls, failures, t_stalled, extra_vars>>

T_check_stall ==
  /\ t_stalled' = check_stall(t_ledger)
  /\ last' = Step("check_stall", "test", Len(t_calls), "")
  /\ UNCHANGED <<pc, published, queue, running, orchestrator_vars, evaluator_vars, events,
                 oracle_calls, failures, t_ledger, t_calls, extra_vars>>

T_set_next_action(speaker, instruction) ==
  /\ t_ledger' = set_next_action(t_ledger, speaker, instruction)
  /\ last' = Step("set_next_action", "test", Len(t_calls), "")
  /\ UNCHANGED <<pc, published, queue, running, orchestrator_vars, evaluator_vars, events,
                 oracle_calls, failures, t_calls, t_stalled, extra_vars>>

LedgerNext ==
  \/ \E s \in TestSteps, p \in BOOLEAN : T_update_progress(s, p)
  \/ T_check_stall
  \/ \E sp \in TestSpeakers : T_set_next_action(sp, "Validate expert solutions")

LedgerSpec == Init /\ [][LedgerNext]_vars

(***************************************************************************)
(* The majority vote of run_mock_debate:                                   *)
(* Counter(mock_answers).most_common(1)[0][0]                              *)
(***************************************************************************)
\* at most this many mock answers
MaxAnswers == 4

AnswerValues == {"72", "8", "10", "20"}

\* Counter(answers)[v]
CountOf(v, answers) == Cardinality({i \in 1..Len(answers) : answers[i] = v})

\* the keys of Counter(answers): a dict keeps them in order of first insertion
RECURSIVE CounterKeys(_, _, _)
CounterKeys(answers, i, keys) ==
  IF i > Len(answers) THEN keys
  ELSE CounterKeys(answers, i + 1,
                   IF answers[i] \in Range(keys) THEN keys ELSE Append(keys, answers[i]))

\* a later key with the same count replaces the best so far
RECURSIVE MaxByCount_last(_, _, _, _)
MaxByCount_last(answers, keys, i, best) ==
  IF i > Len(keys) THEN best
  ELSE MaxByCount_last(answers, keys, i + 1,
                       IF CountOf(keys[i], answers) >= CountOf(best, answers) THEN keys[i] ELSE best)

\* max(items, key=count) as heapq.nlargest(1, ...) computes it: a later key
\* replaces the best so far only with a strictly greater count
RECURSIVE MaxByCount(_, _, _, _)
MaxByCount(answers, keys, i, best) ==
  IF i > Len(keys) THEN best
  ELSE MaxByCount(answers, keys, i + 1,
                  IF CountOf(keys[i], answers) > CountOf(best, answers) THEN keys[i] ELSE best)

\* Counter(answers).most_common(1)[0][0]; IndexError on an empty list
most_common(answers) ==
  LET keys == CounterKeys(answers, 1, <<>>)
  IN IF keys = <<>> THEN "IndexError" ELSE MaxByCount(answers, keys, 2, keys[1])

mock_agent_response(a) ==
  /\ mock_final_answer = "None"
  /\ Len(mock_answers) < MaxAnswers
  /\ mock_answers' = Append(mock_answers, a)
  /\ UNCHANGED <<pipeline_vars, ledger_vars, topo_vars, solver_vars, sink_vars, parse_vars, mock_final_answer>>

mock_debate_end ==
  /\ mock_final_answer = "None"
  /\ mock_final_answer' = most_common(mock_answers)
  /\ UNCHANGED <<pipeline_vars, ledger_vars, topo_vars, solver_vars, sink_vars, parse_vars, mock_answers>>

MockNext ==
  \/ \E a \in AnswerValues : mock_agent_response(a)
  \/ mock_debate_end

MockSpec == Init /\ [][MockNext]_vars

(***************************************************************************)
(* Topology Builder: a roster is registered, then the subscriptions of     *)
(* its agents are built in any order                                       *)
(***************************************************************************)
Topo_register(id) ==
  /\ topo_subs = <<>>
  /\ id \notin {topo_roster[i] : i \in 1..Len(topo_roster)}
  /\ topo_roster' = Append(topo_roster, id)
  /\ UNCHANGED <<pipeline_vars, ledger_vars, mock_vars, sink_vars, parse_vars, solver_vars, topo_subs>>

Topo_build(i) ==
  /\ i \in 1..Len(topo_roster)
  /\ topo_roster[i] \notin DOMAIN topo_subs
  /\ topo_subs' = topo_subs @@ (topo_roster[i] :> RingEdges(topo_roster, i))
  /\ UNCHANGED <<pipeline_vars, ledger_vars, mock_vars, sink_vars, parse_vars, solver_vars, topo_roster>>

TopoNext ==
  \/ \E id \in AgentPool : Topo_register(id)
  \/ \E i \in 1..MaxRoster : Topo_build(i)

TopoSpec == Init /\ [][TopoNext]_vars

(***************************************************************************)
(* Solver Agents exchanging intermediate responses through their Round     *)
(* Buffers on the ring of the roster                                       *)
(***************************************************************************)
SolverRequest == [type |-> "SolverRequest"]
IntermediateSolverResponse(from, round) ==
  [type |-> "IntermediateSolverResponse", from |-> from, round |-> round]

Neighbors(a) == RingSubscriptions(SolverRoster, IndexOf(SolverRoster, a))

\* the agents subscribed to a's responses
SubscribersOf(a) == {b \in Solvers : a \in Neighbors(b)}

\* RoundBuffer[a][r]
Slot(buffer, r) == SelectSeq(buffer, LAMBDA m : m.round = r)

ClearSlot(buffer, r) == SelectSeq(buffer, LAMBDA m : m.round # r)

\* every response is forwarded to the buffer
Forwards_any(a, m) == TRUE

\* the agent forwards to its buffer once per neighbour and round
Forwards(a, m) == <<m.from, m.round>> \notin s_reported[a]

BarrierReached(slot) == Len(slot) = num_neighbors

\* the final response goes out one cycle early
IsFinalRound_early(round) == round = max_rounds - 1

IsFinalRound(round) == round = max_rounds

S_handle_question ==
  /\ ~s_started
  /\ s_started' = TRUE
  /\ s_mailbox' = [a \in Solvers |-> Append(s_mailbox[a], SolverRequest)]
  /\ s_requests' = [a \in Solvers |-> s_requests[a] + 1]
  /\ UNCHANGED <<pipeline_vars, ledger_vars, mock_vars, sink_vars, parse_vars, topo_vars, s_round, s_buffer,
                 s_reported, s_released, s_inserts, s_final, s_duplicates>>

S_handle_request(a) ==
  /\ s_mailbox[a] # <<>>
  /\ Head(s_mailbox[a]).type = "SolverRequest"
  /\ LET round == s_round[a] + 1
     IN /\ s_round' = [s_round EXCEPT ![a] = round]
        /\ IF IsFinalRound(round)
           THEN /\ s_final' = [s_final EXCEPT ![a] = @ + 1]
                /\ s_mailbox' = [s_mailbox EXCEPT ![a] = Tail(@)]
           ELSE /\ s_mailbox' =
                     [b \in Solvers |->
                        LET rest == IF b = a THEN Tail(s_mailbox[b]) ELSE s_mailbox[b]
                        IN IF b \in SubscribersOf(a)
                           THEN Append(rest, IntermediateSolverResponse(a, round))
                           ELSE rest]
                /\ UNCHANGED s_final
  /\ UNCHANGED <<pipeline_vars, ledger_vars, mock_vars, sink_vars, parse_vars, topo_vars, s_started, s_buffer,
                 s_reported, s_released, s_inserts, s_requests, s_duplicates>>

S_handle_response(a) ==
  /\ s_mailbox[a] # <<>>
  /\ Head(s_mailbox[a]).type = "IntermediateSolverResponse"
  /\ LET m == Head(s_mailbox[a])
         entry == [from |-> m.from, round |-> m.round]
         slot == Append(Slot(s_buffer[a], m.round), entry)
         nth == Cardinality({e \in s_inserts[a] : e.from = m.from /\ e.round = m.round}) + 1
     IN /\ s_inserts' = [s_inserts EXCEPT ![a] = @ \cup {[from |-> m.from, round |-> m.round, nth |-> nth,
                                                              released |-> m.round \in Range(s_released[a])]}]
        /\ IF ~Forwards(a, m)
           THEN /\ s_mailbox' = [s_mailbox EXCEPT ![a] = Tail(@)]
                /\ UNCHANGED <<s_buffer, s_reported, s_released, s_requests>>
           ELSE /\ s_reported' = [s_reported EXCEPT ![a] = @ \cup {<<m.from, m.round>>}]
                /\ IF BarrierReached(slot)
                   THEN /\ s_released' = [s_released EXCEPT ![a] = Append(@, m.round)]
                        /\ s_buffer' = [s_buffer EXCEPT ![a] = ClearSlot(@, m.round)]
                        /\ s_mailbox' = [s_mailbox EXCEPT ![a] = Append(Tail(@), SolverRequest)]
                        /\ s_requests' = [s_requests EXCEPT ![a] = @ + 1]
                   ELSE /\ s_buffer' = [s_buffer EXCEPT ![a] = Append(@, entry)]
                        /\ s_mailbox' = [s_mailbox EXCEPT ![a] = Tail(@)]
                        /\ UNCHANGED <<s_released, s_requests>>
  /\ UNCHANGED <<pipeline_vars, ledger_vars, mock_vars, sink_vars, parse_vars, topo_vars, s_started, s_round,
                 s_final, s_duplicates>>

\* the agent the duplicated responses reach: the ring looks the same from every agent
DuplicateReceiver == SolverRoster[1]

\* a response a neighbour has already published reaches the agent once more
S_deliver_duplicate(a, p, r) ==
  /\ s_duplicates < MaxDuplicates
  /\ a = DuplicateReceiver
  /\ p \in Neighbors(a)
  /\ r \in 1..s_round[p]
  /\ ~IsFinalRound(r)
  /\ s_duplicates' = s_duplicates + 1
  /\ s_mailbox' = [s_mailbox EXCEPT ![a] = Append(@, IntermediateSolverResponse(p, r))]
  /\ UNCHANGED <<pipeline_vars, ledger_vars, mock_vars, sink_vars, parse_vars, topo_vars, s_started, s_round, s_buffer,
                 s_reported, s_released, s_inserts, s_requests, s_final>>

SolverNext ==
  \/ S_handle_question
  \/ \E a \in Solvers : S_handle_request(a)
  \/ \E a \in Solvers : S_handle_response(a)
  \/ \E a \in Solvers, p \in Solvers, r \in 1..max_rounds : S_deliver_duplicate(a, p, r)

SolverSpec == Init /\ [][SolverNext]_vars

(***************************************************************************)
(* WebSocketCallback: debate_history as the notifications leave it         *)
(***************************************************************************)
\* the notifications WebSocketCallback overrides; the ledger updates keep the
\* base class's empty methods
WebSocketRecorded ==
  {"agent_response", "agent_thinking", "debate_start", "debate_end", "round_complete",
   "expert_assignment", "evaluation_start"}

IsRecorded(e) == e.ev \in WebSocketRecorded

RECURSIVE WebSocketHistory(_, _, _)
WebSocketHistory(notifications, i, history) ==
  IF i > Len(notifications) THEN history
  ELSE LET e == notifications[i]
       IN WebSocketHistory(notifications, i + 1,
            IF e.ev = "debate_start" THEN <<e>>
            ELSE IF IsRecorded(e) THEN Append(history, e)
            ELSE history)

debate_history == WebSocketHistory(events, 1, <<>>)

(***************************************************************************)
(* TaskLedger.update_from_analysis applied to a text built line by line    *)
(***************************************************************************)
\* at most this many lines in an analysis text
MaxLines == 4

AnalysisLines ==
  { Ln("GIVEN_FACTS:", "48 clips"), Ln("TASK_PLAN:", ""), Ln("- ", "add"), ILn("- ", "halve"),
    Ln("- ", ""), Ln("", "I cannot tell"), Ln("", ""), Ln("PROGRESS_MADE:", "true") }

\* a ledger as constructed, and one an earlier analysis has filled
StartLedgers ==
  { TaskLedger(TheQuestion),
    [TaskLedger(TheQuestion) EXCEPT !.given_facts = <<"48 clips">>, !.task_plan = <<"add">>] }

P_construct(tl) ==
  /\ p_lines = <<>>
  /\ p_result = None
  /\ p_ledger # tl
  /\ p_ledger' = tl
  /\ UNCHANGED <<pipeline_vars, ledger_vars, mock_vars, topo_vars, solver_vars, sink_vars,
                 p_lines, p_result>>

P_oracle_line(line) ==
  /\ p_result = None
  /\ Len(p_lines) < MaxLines
  /\ p_lines' = Append(p_lines, line)
  /\ UNCHANGED <<pipeline_vars, ledger_vars, mock_vars, topo_vars, solver_vars, sink_vars,
                 p_ledger, p_result>>

P_update_from_analysis ==
  /\ p_result = None
  /\ p_result' = update_from_analysis(p_ledger, p_lines)
  /\ UNCHANGED <<pipeline_vars, ledger_vars, mock_vars, topo_vars, solver_vars, sink_vars,
                 p_ledger, p_lines>>

ParseNext ==
  \/ \E tl \in StartLedgers : P_construct(tl)
  \/ \E line \in AnalysisLines : P_oracle_line(line)
  \/ P_update_from_analysis

ParseSpec == Init /\ [][ParseNext]_vars

(***************************************************************************)
(* Properties                                                              *)
(***************************************************************************)
PublishedOfType(ty) == {i \in 1..Len(published) : published[i].msg.type = ty}
EventsOfKind(k) == {i \in 1..Len(events) : events[i].ev = k}

\* C1: for one Question submitted through solve_problem, with every oracle
\* call succeeding, the Evaluator evaluates (calls the oracle) exactly once,
\* exactly one Answer is published and on_debate_end is notified exactly once.
C1_OneEvaluationOneAnswer ==
  failures = 0 =>
    /\ oracle_calls["Evaluator"] <= 1
    /\ Cardinality(PublishedOfType("Answer")) <= 1
    /\ Cardinality(EventsOfKind("debate_end")) <= 1
    /\ pc = "returned" =>
         /\ oracle_calls["Evaluator"] = 1
         /\ Cardinality(PublishedOfType("Answer")) = 1
         /\ Cardinality(EventsOfKind("debate_end")) = 1

\* C2: the Evaluator starts an evaluation only when an ExpertAssignment has been
\* handled and the set of expert names in its buffer equals the set of expected
\* experts; it never evaluates while an expected expert is missing.
C2_EvaluatesOnlyAtBarrier ==
  [][ oracle_calls'["Evaluator"] > oracle_calls["Evaluator"] =>
        /\ e_progress_ledger # None
        /\ e_expected_experts' # <<>>
        /\ {e_solutions_buffer'[i].expert_name : i \in 1..Len(e_solutions_buffer')}
             = {e_expected_experts'[i] : i \in 1..Len(e_expected_experts')}
        /\ on_evaluation_start \in Range(events') ]_vars

C2_Witness ==
  /\ last.op = "handle_solution"
  /\ last.branch = "evaluate"
  /\ Len(e_expected_experts) = 2
  /\ oracle_calls["Evaluator"] >= 1

\* C3: when every oracle call succeeds and every published message is
\* delivered, a solve_problem that has published its Question eventually has an
\* Answer published, on_debate_end notified, and returns with nothing pending.
C3_EventuallyAnswered ==
  (pc = "running") ~>
     (/\ pc = "returned"
      /\ PublishedOfType("Answer") # {}
      /\ EventsOfKind("debate_end") # {}
      /\ queue = <<>>
      /\ running = {})

C3_Witness ==
  /\ pc = "returned"
  /\ failures = 0
  /\ PublishedOfType("Answer") # {}
  /\ EventsOfKind("debate_end") # {}

\* C4: for one solve_problem call the Orchestrator's handle_question runs exactly
\* once, so the ledgers are initialised once and exactly one ExpertAssignment is
\* published.
C4_QuestionHandledOnce ==
  /\ oracle_calls["Orchestrator"] <= 1
  /\ Cardinality(PublishedOfType("ExpertAssignment")) <= 1
  /\ (pc = "returned" /\ failures = 0) =>
       /\ oracle_calls["Orchestrator"] = 1
       /\ Cardinality(PublishedOfType("ExpertAssignment")) = 1

\* the analysis has no ASSIGNED_EXPERTS: line, or none that names a known expert
NamesNoKnownExpert(lines) ==
  \A i \in 1..Len(lines) :
    lines[i].head = "ASSIGNED_EXPERTS:" =>
      /\ lines[i].body \notin {"both", "Both experts"}
      /\ lines[i].body \notin {"GeometryExpert", "AlgebraExpert", "GeometryExpert, AlgebraExpert"}

\* C5: every published ExpertAssignment has a non-empty assigned_experts within
\* {GeometryExpert, AlgebraExpert}; when the analysis has no ASSIGNED_EXPERTS:
\* line, or the line names no known expert, it is exactly [AlgebraExpert].
C5_AssignedExpertsNeverEmpty ==
  \A i \in PublishedOfType("ExpertAssignment") :
    LET experts == published[i].msg.assigned_experts IN
      /\ experts # <<>>
      /\ \A k \in 1..Len(experts) : experts[k] \in {"GeometryExpert", "AlgebraExpert"}
      /\ NamesNoKnownExpert(published[i].cause) => experts = <<"AlgebraExpert">>

C5_Witness ==
  \E i \in PublishedOfType("ExpertAssignment") :
    /\ \A k \in 1..Len(published[i].cause) : published[i].cause[k].head # "ASSIGNED_EXPERTS:"
    /\ published[i].msg.assigned_experts = <<"AlgebraExpert">>

\* C6: an expert that is not named in an ExpertAssignment's assigned_experts
\* does nothing on receiving it: no notification, no oracle call, no
\* ExpertSolution published, no state change.
C6_UnnamedExpertIsNoOp ==
  [][ \A e \in Experts :
        ( /\ Delivers(e, "ExpertAssignment")
          /\ \A k \in 1..Len(MsgOf(Head(queue).id).assigned_experts) :
               MsgOf(Head(queue).id).assigned_experts[k] # e )
        => UNCHANGED <<pc, published, running, orchestrator_vars, evaluator_vars, events,
                       oracle_calls, failures>> ]_vars

C6_Witness ==
  /\ last.op = "handle_assignment"
  /\ last.agent \in Experts
  /\ last.branch = "not_assigned"
  /\ MsgOf(last.id).assigned_experts # <<>>

\* C7: update_progress changes stall_count by exactly +1 when called with
\* progress_made = False and sets it to 0 when called with progress_made = True;
\* check_stall and set_next_action leave it alone; it is never negative.
C7_StallCountSteps ==
  [][ /\ t_ledger'.stall_count >= 0
      /\ (Len(t_calls') = Len(t_calls) + 1 /\ ~t_calls'[Len(t_calls')])
           => t_ledger'.stall_count = t_ledger.stall_count + 1
      /\ (Len(t_calls') = Len(t_calls) + 1 /\ t_calls'[Len(t_calls')])
           => t_ledger'.stall_count = 0
      /\ t_calls' = t_calls => t_ledger'.stall_count = t_ledger.stall_count ]_vars

C7_Witness ==
  /\ Len(t_calls) >= 3
  /\ ~t_calls[Len(t_calls) - 1]
  /\ ~t_calls[Len(t_calls)]
  /\ t_ledger.stall_count = 2
  /\ last.op = "set_next_action"

\* the number of no-progress updates since the last update that reported progress
RECURSIVE TrailingNoProgress(_)
TrailingNoProgress(calls) ==
  IF calls = <<>> THEN 0
  ELSE IF calls[Len(calls)] THEN 0
  ELSE 1 + TrailingNoProgress(SubSeq(calls, 1, Len(calls) - 1))

\* C8: n >= 3 consecutive update_progress(progress_made=False) calls after a
\* progress update yield stall_count = n and check_stall() true; one following
\* update_progress(progress_made=True) resets stall_count to 0 and makes
\* check_stall() false; check_stall() is true exactly when stall_count > 2 or
\* progress_being_made is false.
C8_StallDetection ==
  /\ t_ledger.stall_count = TrailingNoProgress(t_calls)
  /\ TrailingNoProgress(t_calls) >= 3 => check_stall(t_ledger)
  /\ (t_calls # <<>> /\ t_calls[Len(t_calls)]) =>
       (t_ledger.stall_count = 0 /\ ~check_stall(t_ledger))
  /\ last.op = "check_stall" =>
       (t_stalled <=> (t_ledger.stall_count > 2 \/ ~t_ledger.progress_being_made))

C8_Witness ==
  /\ Len(t_calls) >= 4
  /\ SubSeq(t_calls, Len(t_calls) - 3, Len(t_calls)) = <<FALSE, FALSE, FALSE, TRUE>>
  /\ last.op = "check_stall"
  /\ ~t_stalled
  /\ t_ledger.stall_count = 0

\* C9: a second solution from an expert whose solution is already buffered is
\* ignored by the Evaluator: the buffer holds at most one solution per expert
\* name and the duplicate starts no further evaluation.
C9_OneSolutionPerExpert ==
  \A i, j \in 1..Len(e_solutions_buffer) :
    i # j => e_solutions_buffer[i].expert_name # e_solutions_buffer[j].expert_name

\* C10: an ExpertSolution whose expert_name is not in the Evaluator's expected
\* set changes nothing: buffer, ledger and expected set stay as they are and no
\* evaluation, notification or message results.
C10_UnexpectedSolutionIgnored ==
  [][ ( /\ Delivers("Evaluator", "ExpertSolution")
        /\ \A k \in 1..Len(e_expected_experts) :
             e_expected_experts[k] # MsgOf(Head(queue).id).expert_name )
      => UNCHANGED <<pc, published, running, orchestrator_vars, evaluator_vars, events,
                     oracle_calls, failures>> ]_vars

C10_Witness ==
  /\ last.op = "handle_solution"
  /\ last.agent = "Evaluator"
  /\ last.branch = "unexpected"
  /\ e_expected_experts # <<>>

\* the ExpertSolutions published in response to the ExpertAssignment published i-th
SolutionsFor(i) == {j \in PublishedOfType("ExpertSolution") : published[j].cause = <<i>>}

\* C11: for each ExpertAssignment, every expert it names publishes exactly one
\* ExpertSolution, carrying its own expert_name and the assignment's question,
\* and nobody else publishes one; when no oracle call failed, the number of
\* ExpertSolutions of an assignment equals the number of its assigned experts.
C11_OneSolutionPerAssignedExpert ==
  /\ \A j \in PublishedOfType("ExpertSolution") :
       \E i \in PublishedOfType("ExpertAssignment") :
         /\ published[j].cause = <<i>>
         /\ published[j].msg.expert_name = published[j].sender
         /\ published[j].sender \in Range(published[i].msg.assigned_experts)
         /\ published[j].msg.question = published[i].msg.question
  /\ \A i \in PublishedOfType("ExpertAssignment") :
       /\ \A e \in Experts :
            Cardinality({j \in SolutionsFor(i) : published[j].sender = e}) <= 1
       /\ (pc = "returned" /\ failures = 0) =>
            Cardinality(SolutionsFor(i)) = Len(published[i].msg.assigned_experts)

C11_Witness ==
  /\ pc = "returned"
  /\ failures = 0
  /\ \E i \in PublishedOfType("ExpertAssignment") :
       /\ Len(published[i].msg.assigned_experts) = 2
       /\ Cardinality(SolutionsFor(i)) = 2

\* C12: the Evaluator sets task_complete before it publishes the Answer: right
\* after the Answer of the current assignment is published (and on_debate_end
\* notified) the Evaluator's ledger has task_complete = TRUE, and task_complete
\* is never TRUE before the barrier of the current assignment was reached.
C12_TaskCompleteOnlyAfterBarrier ==
  e_progress_ledger # None =>
    /\ last.op = "evaluate_solutions_resume" => e_progress_ledger.task_complete
    /\ e_progress_ledger.task_complete =>
         /\ e_expected_experts # <<>>
         /\ Range(received_experts(e_solutions_buffer)) = Range(e_expected_experts)

\* C13: a debate has one ProgressLedger, the Orchestrator's, which the Evaluator
\* only mirrors; so once the final Answer is published the Orchestrator's
\* ProgressLedger reports task_complete = TRUE.
C13_OrchestratorLedgerComplete ==
  PublishedOfType("Answer") # {} =>
    /\ o_progress_ledger # None
    /\ o_progress_ledger.task_complete

IsPrefix(s, t) == Len(s) <= Len(t) /\ SubSeq(t, 1, Len(s)) = s

\* C14: the TaskLedger is append-only within a debate: a step changes it only
\* in an Orchestrator handler; update_from_analysis (the resumed
\* handle_question) keeps the question and leaves each of the five lists with
\* its previous content as a prefix; any other change is handle_question
\* installing the empty ledger of the Question it handles.
C14_TaskLedgerAppendOnly ==
  [][ o_task_ledger' # o_task_ledger =>
        /\ last'.agent = "Orchestrator"
        /\ \/ /\ last'.op = "handle_question"
              /\ MsgOf(last'.id).type = "Question"
              /\ o_task_ledger' = TaskLedger(MsgOf(last'.id).content)
           \/ /\ last'.op = "handle_question_resume"
              /\ o_task_ledger # None
              /\ o_task_ledger'.question = o_task_ledger.question
              /\ IsPrefix(o_task_ledger.given_facts, o_task_ledger'.given_facts)
              /\ IsPrefix(o_task_ledger.facts_to_lookup, o_task_ledger'.facts_to_lookup)
              /\ IsPrefix(o_task_ledger.facts_to_derive, o_task_ledger'.facts_to_derive)
              /\ IsPrefix(o_task_ledger.educated_guesses, o_task_ledger'.educated_guesses)
              /\ IsPrefix(o_task_ledger.task_plan, o_task_ledger'.task_plan) ]_vars

C14_Witness ==
  /\ last.op = "handle_question_resume"
  /\ o_task_ledger # None
  /\ Len(o_task_ledger.given_facts) = 3
  /\ Len(o_task_ledger.task_plan) = 1

\* C15: on each ExpertSolution the Orchestrator receives after a Question, it
\* appends exactly one completed step to its ProgressLedger and sets
\* next_speaker to Evaluator; when check_stall() is true of the ledger at that
\* point, the recorded instruction is the forced evaluation, otherwise the
\* normal one.
C15_StallForcesEvaluation ==
  [][ ( /\ Delivers("Orchestrator", "ExpertSolution")
        /\ o_progress_ledger # None )
      => /\ o_progress_ledger'.completed_steps =
              Append(o_progress_ledger.completed_steps,
                     ProvidedSolution(MsgOf(Head(queue).id).expert_name))
         /\ o_progress_ledger'.next_speaker = "Evaluator"
         /\ o_progress_ledger'.next_speaker_instruction =
              IF check_stall(o_progress_ledger)
              THEN "Validate available solutions due to stall detection"
              ELSE "Validate expert solutions" ]_vars

\* the runtime hands the head envelope to agent a in this step
HandlerStarts(a) ==
  IF queue = <<>> THEN FALSE
  ELSE /\ pc = "running"
       /\ Head(Head(queue).pending) = a
       /\ queue' = Consume(queue)

Suspended(a) == \E inv \in running : inv.agent = a

\* C16: each agent processes one message at a time to completion: while a
\* handler of an agent is suspended at its oracle call, no other handler of the
\* same agent starts.
C16_OneMessageAtATime ==
  [][ \A a \in AgentSet : Suspended(a) => ~HandlerStarts(a) ]_vars

\* C17: when an oracle call fails inside a handler, that handler ends there:
\* the step changes no ledger, no buffer, publishes and notifies nothing, and
\* solve_problem keeps running; only an invocation that is still suspended
\* (its oracle call has not failed) goes on to publish.
C17_FailureLeavesState ==
  [][ /\ failures' # failures =>
           /\ UNCHANGED <<pc, published, queue, orchestrator_vars, evaluator_vars, events>>
           /\ \E inv \in running : running' = running \ {inv}
      /\ (Len(published') > Len(published) /\ last'.agent \in Experts \cup {"Orchestrator", "Evaluator"}) =>
           /\ failures' = failures
           /\ [agent |-> last'.agent, id |-> last'.id] \in running
           /\ [agent |-> last'.agent, id |-> last'.id] \notin running' ]_vars

C17_Witness ==
  /\ last.op = "oracle_fails"
  /\ failures = 1
  /\ pc = "running"
  /\ e_solutions_buffer # <<>>
  /\ o_task_ledger # None
  /\ running # {}

\* C18: every oracle call failure in any agent is caught at the agent boundary
\* and reported to the Callback sink as an error event: the sink has received
\* at least one error notification per failure.
C18_FailureReported ==
  Cardinality(EventsOfKind("error")) >= failures

\* check_stall() is true of the Orchestrator's or of the Evaluator's ledger
StallObservable ==
  \/ (o_progress_ledger # None /\ check_stall(o_progress_ledger))
  \/ (e_progress_ledger # None /\ check_stall(e_progress_ledger))

\* C19: if an oracle call failure leaves the debate stalled (solve_problem has
\* gone idle and no Answer was published), then eventually check_stall() is
\* true.
C19_StallEventuallyObservable ==
  (failures > 0 /\ pc = "returned" /\ PublishedOfType("Answer") = {}) ~> StallObservable

\* C20: an assigned expert whose oracle output has no {{number}} marker still
\* publishes its ExpertSolution, with answer "No answer found"; the Evaluator
\* buffers such a solution of an expected expert and starts the evaluation
\* when it completes the barrier, like any other.
C20_SentinelSolutionCounts ==
  [][ /\ (\E inv \in running :
             inv.agent \in Experts /\ running' = running \ {inv} /\ failures' = failures) =>
           /\ Len(published') = Len(published) + 1
           /\ published'[Len(published')].msg.type = "ExpertSolution"
           /\ published'[Len(published')].msg.expert_name = published'[Len(published')].sender
           /\ (\A i \in 1..Len(published'[Len(published')].msg.solution) :
                 ~MatchesMarker(published'[Len(published')].msg.solution[i]))
                => published'[Len(published')].msg.answer = "No answer found"
      /\ ( /\ Delivers("Evaluator", "ExpertSolution")
           /\ MsgOf(Head(queue).id).answer = "No answer found"
           /\ \E k \in 1..Len(e_expected_experts) :
                e_expected_experts[k] = MsgOf(Head(queue).id).expert_name ) =>
           /\ e_solutions_buffer' = Append(e_solutions_buffer, MsgOf(Head(queue).id))
           /\ ({e_solutions_buffer'[k].expert_name : k \in 1..Len(e_solutions_buffer')}
                 = {e_expected_experts[k] : k \in 1..Len(e_expected_experts)})
                => oracle_calls'["Evaluator"] = oracle_calls["Evaluator"] + 1 ]_vars

C20_Witness ==
  /\ last.op = "handle_solution"
  /\ last.branch = "evaluate"
  /\ MsgOf(last.id).answer = "No answer found"
  /\ \E k \in 1..Len(e_solutions_buffer) : e_solutions_buffer[k] = MsgOf(last.id)

\* the tokens of a text that are {{number}} markers
MarkedNumbers(content) == {content[i].inner : i \in {k \in 1..Len(content) : MatchesMarker(content[k])}}

\* C21: an expert's "No answer found" is never passed on as the final answer:
\* the content of every published Answer, and the value given with it to
\* on_debate_end, is a number marked in the Evaluator's own oracle output or
\* the Evaluator's sentinel "Evaluation incomplete".
C21_ExpertSentinelNotFinal ==
  /\ \A i \in PublishedOfType("Answer") :
       /\ published[i].sender = "Evaluator"
       /\ published[i].msg.content # "No answer found"
       /\ \E k \in EventsOfKind("agent_response") :
            /\ events[k].agent = "Evaluator"
            /\ events[k].answer = published[i].msg.content
            /\ \/ events[k].answer \in MarkedNumbers(events[k].content)
               \/ events[k].answer = "Evaluation incomplete"
  /\ \A k \in EventsOfKind("debate_end") :
       /\ events[k].final_answer # "No answer found"
       /\ k > 1
       /\ events[k - 1] = on_agent_response("Evaluator", 2, events[k - 1].content, events[k].final_answer)
       /\ \/ events[k].final_answer \in MarkedNumbers(events[k - 1].content)
          \/ events[k].final_answer = "Evaluation incomplete"

C21_Witness ==
  \E i \in PublishedOfType("Answer") :
    /\ published[published[i].cause[1]].msg.type = "ExpertSolution"
    /\ published[published[i].cause[1]].msg.answer = "No answer found"
    /\ published[i].msg.content = "8"

\* C22: when the Evaluator's oracle output has no {{number}} marker the
\* Evaluator still completes: the returning evaluation marks task_complete,
\* notifies its response and on_debate_end and publishes an Answer, all with
\* "Evaluation incomplete"; so every evaluation whose oracle call returned has
\* its Answer.
C22_UnparsedEvaluationCompletes ==
  /\ last.op = "evaluate_solutions_resume" =>
       /\ e_progress_ledger # None
       /\ e_progress_ledger.task_complete
       /\ Len(events) >= 3
       /\ events[Len(events)].ev = "debate_end"
       /\ published # <<>>
       /\ published[Len(published)].msg = Answer(events[Len(events)].final_answer)
  /\ \A k \in EventsOfKind("agent_response") :
       (events[k].agent = "Evaluator" /\ MarkedNumbers(events[k].content) = {}) =>
         /\ events[k].answer = "Evaluation incomplete"
         /\ events[k - 1].ev = "progress_ledger_update"
         /\ events[k - 1].by = "Evaluator"
         /\ events[k - 1].task_complete
         /\ events[k + 1] = on_debate_end("Evaluation incomplete")
         /\ \E i \in PublishedOfType("Answer") : published[i].msg.content = "Evaluation incomplete"
  /\ (pc = "returned" /\ failures = 0) =>
       Cardinality(PublishedOfType("Answer")) = oracle_calls["Evaluator"]

C22_Witness ==
  /\ last.op = "evaluate_solutions_resume"
  /\ published[Len(published)].msg = Answer("Evaluation incomplete")
  /\ events[Len(events)] = on_debate_end("Evaluation incomplete")
  /\ e_progress_ledger.task_complete

IsNotThinking(e) == e.ev # "agent_thinking"

\* the notifications received so far, without the thinking notifications
Notifications == SelectSeq(events, IsNotThinking)

OpeningOrder ==
  <<"debate_start", "task_ledger_update", "progress_ledger_update", "expert_assignment",
    "agent_response">>

\* C24: ignoring thinking notifications, the notifications of a debate begin,
\* in this order, with debate_start, task_ledger_update,
\* progress_ledger_update, expert_assignment and the Orchestrator's response;
\* an ExpertAssignment is published only after all five, and a debate whose
\* oracle calls all succeed has them.
C24_OpeningNotifications ==
  /\ \A k \in 1..Len(Notifications) :
       k <= 5 => /\ Notifications[k].ev = OpeningOrder[k]
                 /\ k = 5 => Notifications[k].agent = "Orchestrator"
  /\ PublishedOfType("ExpertAssignment") # {} => Len(Notifications) >= 5
  /\ (pc = "returned" /\ failures = 0) => Len(Notifications) >= 5

C24_Witness ==
  /\ events # <<>>
  /\ events[1] = on_agent_thinking("Orchestrator", 0)
  /\ Len(Notifications) = 5
  /\ Cardinality(PublishedOfType("ExpertAssignment")) = 1
  /\ last.op = "handle_question_resume"

\* the place of a notification in the order of a debate; 0 for the kinds the
\* order does not mention
Stage(e) ==
  CASE e.ev = "debate_start" -> 1
    [] e.ev = "expert_assignment" -> 2
    [] e.ev = "agent_response" -> IF e.agent \in Experts THEN 3 ELSE 0
    [] e.ev = "evaluation_start" -> 4
    [] e.ev = "debate_end" -> 5
    [] OTHER -> 0

\* C25: the notifications of a debate respect the order debate_start,
\* expert_assignment, the responses of the assigned experts, evaluation_start,
\* debate_end: no notification of an earlier stage follows one of a later
\* stage (evaluation_start never precedes an expert's response, debate_end
\* never precedes evaluation_start), and only assigned experts respond.
C25_NotificationOrder ==
  /\ \A i, j \in 1..Len(events) :
       (i < j /\ Stage(events[i]) > 0 /\ Stage(events[j]) > 0) =>
         Stage(events[i]) <= Stage(events[j])
  /\ \A j \in 1..Len(events) :
       Stage(events[j]) = 3 =>
         \E i \in 1..(j - 1) :
           /\ events[i].ev = "expert_assignment"
           /\ events[j].agent \in Range(events[i].assigned_experts)

\* the TypeSubscriptions DebateManager.initialize adds: <<message type, agent>>
DeclaredEdges ==
  { <<"Question", "Orchestrator">>,
    <<"ExpertAssignment", "GeometryExpert">>,
    <<"ExpertAssignment", "AlgebraExpert">>,
    <<"ExpertAssignment", "Evaluator">>,
    <<"ExpertSolution", "Evaluator">>,
    <<"ExpertSolution", "Orchestrator">>,
    <<"Answer", "MathAggregator">> }

\* C26: each message type is delivered only along its declared edge: a
\* handler of an agent runs for a message only when the topology declares the
\* edge from the message's type to that agent.
C26_DeclaredEdgesOnly ==
  (last.agent \in AgentSet /\ last.op \in {"handle_question", "handle_assignment", "handle_solution",
                                          "handle_expert_solution", "handle_final_answer"})
    => <<MsgOf(last.id).type, last.agent>> \in DeclaredEdges

FirstIndex(v, answers) == CHOOSE i \in 1..Len(answers) : answers[i] = v /\ \A j \in 1..(i - 1) : answers[j] # v

\* C27: the majority vote is the most frequent of the collected answers, and
\* among equally frequent values the one that was encountered first in
\* arrival order: [72,72,72,8] gives 72 and [10,10,20,20] gives 10.
C27_MajorityVote ==
  (mock_final_answer # "None" /\ mock_answers # <<>>) =>
    /\ mock_final_answer \in Range(mock_answers)
    /\ \A w \in Range(mock_answers) :
         /\ CountOf(w, mock_answers) <= CountOf(mock_final_answer, mock_answers)
         /\ CountOf(w, mock_answers) = CountOf(mock_final_answer, mock_answers) =>
              FirstIndex(mock_final_answer, mock_answers) <= FirstIndex(w, mock_answers)
    /\ mock_answers = <<"72", "72", "72", "8">> => mock_final_answer = "72"
    /\ mock_answers = <<"10", "10", "20", "20">> => mock_final_answer = "10"

C27_Witness ==
  /\ mock_answers = <<"20", "10", "10", "20">>
  /\ mock_final_answer = "20"

RECURSIVE FollowSuccessor(_, _, _)
FollowSuccessor(subs, a, n) ==
  IF n = 0 THEN <<>> ELSE <<a>> \o FollowSuccessor(subs, subs[a].successor, n - 1)

\* C30: in a ring of N >= 3 agents every built agent has exactly two distinct
\* neighbour subscriptions, the agents one place before and one place after it
\* in the roster modulo N, whatever the order the agents were built in; once
\* all are built, following the successor edges from the first agent visits
\* all N agents and returns to it.
C30_RingTopology ==
  LET N == Len(topo_roster)
  IN N >= 3 =>
       /\ \A a \in DOMAIN topo_subs :
            LET i == IndexOf(topo_roster, a)
                e == topo_subs[a]
            IN /\ Cardinality({e.predecessor, e.successor}) = 2
               /\ a \notin {e.predecessor, e.successor}
               /\ {e.predecessor, e.successor} \subseteq Range(topo_roster)
               /\ (IndexOf(topo_roster, e.successor) - i) % N = 1
               /\ (i - IndexOf(topo_roster, e.predecessor)) % N = 1
       /\ DOMAIN topo_subs = Range(topo_roster) =>
            LET path == FollowSuccessor(topo_subs, topo_roster[1], N)
            IN /\ Range(path) = Range(topo_roster)
               /\ topo_subs[path[N]].successor = topo_roster[1]

C30_Witness ==
  /\ Len(topo_roster) = 4
  /\ DOMAIN topo_subs = Range(topo_roster)
  /\ topo_subs[topo_roster[4]].successor = topo_roster[1]
  /\ topo_subs[topo_roster[1]].predecessor = topo_roster[4]
  /\ topo_roster[1] # "MathSolverA"

CountIn(seq, x) == Cardinality({i \in 1..Len(seq) : seq[i] = x})

\* C28: for every agent and round the buffered list never exceeds the
\* neighbour count and holds one entry per peer, the barrier has released at
\* most once, it has released exactly when responses of all the agent's
\* neighbours for the round have been handled, a response delivered again
\* does not release it again, and after the release the slot is empty.
C28_RoundBufferBarrier ==
  \A a \in Solvers, r \in 1..max_rounds :
    LET slot == Slot(s_buffer[a], r)
        handled == {e \in s_inserts[a] : e.round = r}
        peers == {e.from : e \in handled}
        releases == CountIn(s_released[a], r)
    IN /\ Len(slot) <= num_neighbors
       /\ Cardinality({slot[j].from : j \in 1..Len(slot)}) = Len(slot)
       /\ releases <= 1
       /\ releases = 1 <=> peers = Neighbors(a)
       /\ releases = 1 => slot = <<>>

C28_Witness ==
  \E a \in Solvers, r \in 1..max_rounds :
    /\ CountIn(s_released[a], r) = 1
    /\ Cardinality({e \in s_inserts[a] : e.round = r}) = num_neighbors + 1
    /\ \E e \in s_inserts[a] : e.round = r /\ e.nth = 2 /\ e.released
    /\ Slot(s_buffer[a], r) = <<>>

PendingRequests(a) == CountIn(s_mailbox[a], SolverRequest)

\* C29: an agent's round counter is 0 before the question and equals the
\* number of SolverRequests it has handled; it never exceeds max_rounds; the
\* agent has published one FinalSolverResponse when the counter equals
\* max_rounds and none before, and from then on no SolverRequest is sent to
\* it or pending for it.
C29_SolverRoundCounter ==
  \A a \in Solvers :
    /\ ~s_started => s_round[a] = 0
    /\ s_round[a] = s_requests[a] - PendingRequests(a)
    /\ s_round[a] <= max_rounds
    /\ s_final[a] = IF s_round[a] = max_rounds THEN 1 ELSE 0
    /\ s_round[a] = max_rounds => (PendingRequests(a) = 0 /\ s_requests[a] = max_rounds)

C29_Witness ==
  /\ \A a \in Solvers : s_round[a] = max_rounds /\ s_final[a] = 1 /\ s_mailbox[a] = <<>>
  /\ s_duplicates = MaxDuplicates

\* C23: a debate run with callback = None can take every step the debate
\* with a callback registered takes, handler by handler with the same oracle
\* returns, and after each step both hold the same published messages, queue,
\* running handlers, ledgers, buffer and expected experts; the run without a
\* callback notifies nobody.
C23_AbsentSinkSameEngine ==
  /\ callback = "None" => events = <<>>
  /\ callback = "registered" => twin.events = <<>>
  /\ InStep => EngineState = twin.engine
  /\ (callback = "None" /\ ~InStep) => ENABLED Sink_none_step

C23_Witness ==
  /\ callback = "None"
  /\ InStep
  /\ pc = "returned"
  /\ events = <<>>
  /\ Len(twin.events) > 10
  /\ \E i \in 1..Len(published) : published[i].msg.type = "Answer"
  /\ o_progress_ledger # None /\ e_progress_ledger # None

RemoveAt(seq, i) == SubSeq(seq, 1, i - 1) \o SubSeq(seq, i + 1, Len(seq))

\* the line at position i is neither a section header nor a "- " item after one
Unlabeled(lines, i) ==
  /\ lines[i].head \notin SectionLabels
  /\ ~ /\ lines[i].head = "- "
       /\ lines[i].body # ""
       /\ \E j \in 1..(i - 1) : lines[j].head \in SectionLabels

\* C31: update_from_analysis returns a ledger for every text; a text of
\* unlabeled lines only leaves all five lists as they were, and taking an
\* unlabeled line out of a text changes nothing in the resulting ledger.
C31_UnlabeledLinesIgnored ==
  p_result # None =>
    /\ DOMAIN p_result = DOMAIN p_ledger
    /\ p_result.question = p_ledger.question
    /\ (\A i \in 1..Len(p_lines) : Unlabeled(p_lines, i)) => p_result = p_ledger
    /\ \A i \in 1..Len(p_lines) :
         Unlabeled(p_lines, i) => update_from_analysis(p_ledger, RemoveAt(p_lines, i)) = p_result

C31_Witness ==
  /\ p_result # None
  /\ p_lines = << Ln("- ", "add"), Ln("GIVEN_FACTS:", "48 clips"), Ln("", "I cannot tell"), ILn("- ", "halve") >>
  /\ p_ledger.given_facts = <<"48 clips">>
  /\ p_result.given_facts = <<"48 clips", "48 clips", "halve">>
  /\ p_result.task_plan = <<"add">>

NoProgressAnalysis == <<Ln("PROGRESS_MADE:", "false"), Ln("ASSIGNED_EXPERTS:", "both")>>

\* C32: whatever its ProgressLedger held, the Orchestrator's
\* handle_expert_solution leaves it with stall_count 0 and progress_being_made
\* true, so that check_stall() is false of it, and records the instruction
\* "Validate expert solutions".
C32_ExpertSolutionResetsStall ==
  [][ ( /\ Delivers("Orchestrator", "ExpertSolution")
        /\ o_progress_ledger # None )
      => /\ last'.op = "handle_expert_solution"
         /\ o_progress_ledger'.stall_count = 0
         /\ o_progress_ledger'.progress_being_made
         /\ ~check_stall(o_progress_ledger')
         /\ o_progress_ledger'.next_speaker_instruction = "Validate expert solutions" ]_vars

C32_Witness ==
  /\ last.op = "handle_expert_solution"
  /\ last.agent = "Orchestrator"
  /\ last.branch = ""
  /\ Len(o_progress_ledger.completed_steps) = 3
  /\ o_progress_ledger.stall_count = 0
  /\ o_progress_ledger.next_speaker_instruction = "Validate expert solutions"
  /\ Cardinality(PublishedOfType("ExpertAssignment")) = 2
  /\ \A i \in PublishedOfType("ExpertAssignment") : published[i].cause = NoProgressAnalysis

\* C33: in every ledger reached from a fresh one by update_progress and
\* set_next_action, stall_count is 0 exactly when progress_being_made is
\* true; check_stall() is therefore the same as stall_count >= 1, and it is
\* true as soon as the latest update reported no progress.
C33_StallCountMirrorsFlag ==
  /\ t_ledger.stall_count = 0 <=> t_ledger.progress_being_made
  /\ check_stall(t_ledger) <=> t_ledger.stall_count >= 1
  /\ (t_calls # <<>> /\ ~t_calls[Len(t_calls)]) => check_stall(t_ledger)

C33_Witness ==
  /\ t_calls = <<TRUE, FALSE>>
  /\ t_ledger.stall_count = 1
  /\ ~t_ledger.progress_being_made
  /\ t_ledger.next_speaker = "Evaluator"
  /\ check_stall(t_ledger)

\* C34: when an invocation of the Orchestrator's handle_question completes,
\* its TaskLedger holds exactly the items of that invocation's analysis, each
\* once and in order, as a fresh ledger updated from that analysis alone would.
C34_LedgerHoldsOwnAnalysis ==
  (last.op = "handle_question_resume" /\ last.agent = "Orchestrator") =>
    o_task_ledger = update_from_analysis(TaskLedger(MsgOf(last.id).content),
                                         published[Len(published)].cause)

\* C35: on_debate_end is the last notification of a debate: no notification
\* follows it.
C35_DebateEndIsLast ==
  \A i \in 1..Len(events) : events[i].ev = "debate_end" => i = Len(events)

\* C36: the Evaluator handles an ExpertAssignment before any ExpertSolution
\* produced in response to it, and no solution of an expert that assignment
\* names is dropped as unexpected.
C36_AssignedSolutionsExpected ==
  (last.op = "handle_solution" /\ last.agent = "Evaluator") =>
    LET assignment == published[last.id].cause[1]
    IN /\ MsgOf(last.id).expert_name \in Range(MsgOf(assignment).assigned_experts)
       /\ \A k \in 1..Len(queue) :
            queue[k].id = assignment => "Evaluator" \notin Range(queue[k].pending)
       /\ last.branch # "unexpected"

\* C37: once the debate's start has been notified, debate_history begins with
\* its debate_start message and holds every notification of the debate that
\* WebSocketCallback records, in the order issued: the clear of
\* on_debate_start discards none of them.
C37_HistoryKeepsDebate ==
  (\E i \in 1..Len(events) : events[i].ev = "debate_start") =>
    /\ debate_history[1].ev = "debate_start"
    /\ debate_history = SelectSeq(events, IsRecorded)

====
